---- MODULE Spec2Model ----
(***************************************************************************)
(* Model of common.py (erkooi/desp_tools): the fixed-point quantization    *)
(* primitives (int_clip, int_wrap, int_round, int_truncate,                *)
(* int_requantize), the bit-field container CommonBits with its symbol     *)
(* views, and the helpers reverse_bits, invert_msbit, deinterleave and     *)
(* do_until.                                                               *)
(*                                                                         *)
(* Spec  : one CommonBits object, driven by construction, indexed/range    *)
(*         reads and writes, hi()/lo(), reversed() and concatenation.      *)
(* SpecQ : calls of the pure quantization functions on bounded inputs.     *)
(* SpecS : one CommonSymbols view, driven by construction, symbol reads    *)
(*         and writes and len().                                           *)
(* SpecH : calls of reverse_bits, invert_msbit and deinterleave.           *)
(* SpecD : one run of the polling loop do_until.                           *)
(***************************************************************************)
EXTENDS Integers, Sequences, FiniteSets, TLC

VARIABLES obj, ret, q, sym, sret, hlp, du

vars == <<obj, ret, q, sym, sret, hlp, du>>

(***************************************************************************)
(* Bounds of the model.                                                    *)
(***************************************************************************)
\* constructor data argument ranges over -1..MaxData
MaxData == 4
\* constructor bits argument ranges over 0..MaxBits
MaxBits == 3
\* concatenation is only taken while the combined width is <= MaxWidth
MaxWidth == 4
\* written values range over -2..MaxValue
MaxValue == 4
\* quantization inputs range over -MaxInp..MaxInp
MaxInp == 9
\* quantization widths range over 1..MaxW
MaxW == 3
\* numbers of removed LSBs / gain bits range over 0..MaxShift
MaxShift == 2
\* the data argument of a symbol view ranges over -1..MaxSymData
MaxSymData == 5
\* the symbol width of a symbol view ranges over 1..MaxSymbolW
MaxSymbolW == 2
\* the datasymbols argument and symbol positions range over -1..MaxSymbols
MaxSymbols == 2
\* values written to symbols range over -2..MaxSymValue
MaxSymValue == 3
\* the num argument of the bit helpers ranges over -MaxNum..MaxNum
MaxNum == 9
\* the nofBits argument of the bit helpers ranges over 0..MaxNofBits
MaxNofBits == 3
\* input streams have at most MaxStream elements
MaxStream == 4
\* the elements of an input stream range over 1..MaxElem
MaxElem == 2
\* nof_out ranges over 1..MaxOut
MaxOut == 2
\* block_size ranges over 1..MaxBlock
MaxBlock == 2
\* s_timeout ranges over -1..MaxTimeout (seconds)
MaxTimeout == 2
\* the elapsed time of a do_until call is counted up to MaxElapsed seconds
MaxElapsed == 3
\* a method call or a sleep takes 0..MaxStep seconds
MaxStep == 1
\* the polled method returns lists of at most MaxRetLen elements
MaxRetLen == 2
\* the elements the method returns, and val, range over 0..MaxRet
MaxRet == 1

(***************************************************************************)
(* Python integer operators, as the interpreter computes them on           *)
(* unbounded two's-complement integers.                                    *)
(***************************************************************************)
Pow2(n) == 2^n

\* a >> n  (arithmetic shift: floor division by 2^n), n >= 0
ShiftR(a, n) == a \div Pow2(n)

\* a << n, n >= 0
ShiftL(a, n) == a * Pow2(n)

\* ~a
BitNot(a) == -a - 1

RECURSIVE BitAnd(_, _)
\* a & b
BitAnd(a, b) ==
    IF a = 0 \/ b = 0 THEN 0
    ELSE IF a = -1 THEN b
    ELSE IF b = -1 THEN a
    ELSE (a % 2) * (b % 2) + 2 * BitAnd(a \div 2, b \div 2)

RECURSIVE BitOr(_, _)
\* a | b
BitOr(a, b) ==
    IF a = 0 THEN b
    ELSE IF b = 0 THEN a
    ELSE IF a = -1 \/ b = -1 THEN -1
    ELSE ((a % 2) + (b % 2) - (a % 2) * (b % 2)) + 2 * BitOr(a \div 2, b \div 2)

RECURSIVE BitXor(_, _)
\* a ^ b
BitXor(a, b) ==
    IF a = 0 THEN b
    ELSE IF b = 0 THEN a
    ELSE IF a = -1 THEN BitNot(b)
    ELSE IF b = -1 THEN BitNot(a)
    ELSE (((a % 2) + (b % 2)) % 2) + 2 * BitXor(a \div 2, b \div 2)

RECURSIVE BinDigits(_)
\* the binary digits of n >= 0, most significant first ("0" for 0)
BinDigits(n) ==
    IF n < 2 THEN << (IF n = 1 THEN "1" ELSE "0") >>
    ELSE Append(BinDigits(n \div 2), IF n % 2 = 1 THEN "1" ELSE "0")

\* bin(value): "0b101" for 5, "-0b101" for -5, as a sequence of characters
bin(value) ==
    IF value >= 0 THEN <<"0", "b">> \o BinDigits(value)
    ELSE <<"-", "0", "b">> \o BinDigits(-value)

(***************************************************************************)
(* class CommonBits.  An object is a record: exists is FALSE for "no       *)
(* object" (a constructor call that raised); has_data is FALSE when        *)
(* __init__ never assigned self.data (negative input), in which case data  *)
(* is a placeholder that no operator reads.                                *)
(***************************************************************************)
NoObject == [exists |-> FALSE, has_data |-> FALSE, data |-> 0, data_bin_len |-> 0]

\* what a call hands back: the receiver afterwards, the returned integer
\* (none = TRUE when the call returned None), whether an "Error" line was
\* printed and whether a Python exception left the call
Outcome(self, val, none, printed, raised) ==
    [self |-> self, val |-> val, none |-> none, printed |-> printed, raised |-> raised]

\* the subscript of c[...]: a slice start:stop(:step) or a plain integer,
\* which is kept in start
Slice(start, stop, has_step) ==
    [is_slice |-> TRUE, start |-> start, stop |-> stop, has_step |-> has_step]

Index(bit) == [is_slice |-> FALSE, start |-> bit, stop |-> 0, has_step |-> FALSE]

\* get_bin_len that counts the digits of the magnitude (drops "-0b")
get_bin_len_Abs(value) == Len(BinDigits(IF value >= 0 THEN value ELSE -value))

\* CommonBits.get_bin_len: len(bin(value)[2:])
get_bin_len(value) == Len(SubSeq(bin(value), 3, Len(bin(value))))

\* bitmask without the "- 1"
bitmask_NoMinusOne(nof_bits) == Pow2(nof_bits)

\* CommonBits.bitmask: pow(2, nof_bits) - 1
bitmask(nof_bits) == Pow2(nof_bits) - 1

\* __init__ that widens the container when the value needs more than bits
CommonBits_init_Grow(data, bits) ==
    IF data < 0 /\ bits <= 0 THEN Outcome(NoObject, 0, TRUE, TRUE, TRUE)
    ELSE Outcome([exists |-> TRUE, has_data |-> data >= 0,
                  data |-> IF data >= 0 THEN data ELSE 0,
                  data_bin_len |-> IF bits > get_bin_len(data) THEN bits
                                   ELSE get_bin_len(data)],
                 0, TRUE, data < 0, FALSE)

\* CommonBits.__init__(data, bits)
CommonBits_init(data, bits) ==
    LET has  == data >= 0
        neg  == ~has
    IN  IF bits > 0
        THEN Outcome([exists |-> TRUE, has_data |-> has,
                      data |-> IF has THEN data ELSE 0, data_bin_len |-> bits],
                     0, TRUE, neg \/ get_bin_len(data) > bits, FALSE)
        ELSE IF has
             THEN Outcome([exists |-> TRUE, has_data |-> TRUE, data |-> data,
                           data_bin_len |-> get_bin_len(data)],
                          0, TRUE, FALSE, FALSE)
             \* self.data was never assigned: AttributeError
             ELSE Outcome(NoObject, 0, TRUE, TRUE, TRUE)

\* check_slice with > where the code has >= on the MSbit index
check_slice_OffByOne(self, bitslice) ==
    IF bitslice.is_slice
    THEN (IF bitslice.has_step THEN 1 ELSE 0)
         + (IF bitslice.stop > bitslice.start THEN 1 ELSE 0)
         + (IF bitslice.start > self.data_bin_len THEN 1 ELSE 0)
    ELSE (IF bitslice.start > self.data_bin_len THEN 1 ELSE 0)

\* CommonBits.check_slice: the number of violations found
check_slice(self, bitslice) ==
    IF bitslice.is_slice
    THEN (IF bitslice.has_step THEN 1 ELSE 0)
         + (IF bitslice.stop > bitslice.start THEN 1 ELSE 0)
         + (IF bitslice.start >= self.data_bin_len THEN 1 ELSE 0)
    ELSE (IF bitslice.start >= self.data_bin_len THEN 1 ELSE 0)

\* CommonBits.__getitem__
CommonBits_getitem(self, bitslice) ==
    IF check_slice(self, bitslice) = 0
    THEN LET mask  == IF bitslice.is_slice
                      THEN bitmask(bitslice.start - bitslice.stop + 1)
                      ELSE bitmask(1)
             shift == IF bitslice.is_slice THEN bitslice.stop ELSE bitslice.start
         IN  IF ~self.has_data \/ shift < 0
             \* AttributeError (no self.data) or ValueError (negative shift count)
             THEN Outcome(self, 0, TRUE, FALSE, TRUE)
             ELSE Outcome(self, BitAnd(ShiftR(self.data, shift), mask), FALSE, FALSE, FALSE)
    ELSE Outcome(self, 0, TRUE, TRUE, FALSE)

\* SetBits without clearing the old bits of the range first
SetBits_NoClear(old, mask, shift, data) ==
    BitOr(old, ShiftL(data, shift))

\* self.data = (self.data & ~(bitmask << shift)) | (data << shift)
SetBits(old, mask, shift, data) ==
    BitOr(BitAnd(old, BitNot(ShiftL(mask, shift))), ShiftL(data, shift))

\* CommonBits.__setitem__
CommonBits_setitem(self, bitslice, value) ==
    IF check_slice(self, bitslice) = 0
    THEN LET mask    == IF bitslice.is_slice
                        THEN bitmask(bitslice.start - bitslice.stop + 1)
                        ELSE bitmask(1)
             shift   == IF bitslice.is_slice THEN bitslice.stop ELSE bitslice.start
             unbound == bitslice.is_slice /\ value < -1
             data    == IF bitslice.is_slice /\ value = -1 THEN mask ELSE value
         IN  IF unbound
             \* the error is printed, then get_bin_len(data) reads the
             \* unassigned local: UnboundLocalError
             THEN Outcome(self, 0, TRUE, TRUE, TRUE)
             ELSE IF get_bin_len(data) <= get_bin_len(mask)
                  THEN IF ~self.has_data \/ shift < 0
                       THEN Outcome(self, 0, TRUE, FALSE, TRUE)
                       ELSE Outcome([self EXCEPT !.data = SetBits(self.data, mask, shift, data)],
                                    0, TRUE, FALSE, FALSE)
                  ELSE Outcome(self, 0, TRUE, TRUE, FALSE)
    ELSE Outcome(self, 0, TRUE, TRUE, FALSE)

\* __and__ with the operand, not the receiver, taken as the MS part
CommonBits_and_Swapped(self, other) ==
    LET new == CommonBits_init(0, self.data_bin_len + other.data_bin_len)
        w1  == CommonBits_setitem(new.self,
                                  Slice(new.self.data_bin_len - 1, self.data_bin_len, FALSE),
                                  IF other.has_data THEN other.data ELSE 0)
        w2  == CommonBits_setitem(w1.self, Slice(self.data_bin_len - 1, 0, FALSE),
                                  IF self.has_data THEN self.data ELSE 0)
    IN  [self |-> self, other |-> other,
         ret |-> IF self.has_data /\ other.has_data THEN w2.self ELSE NoObject,
         printed |-> w1.printed \/ w2.printed,
         raised |-> ~(self.has_data /\ other.has_data)]

\* __and__ that takes the LS operand at the minimum width of its value
CommonBits_and_MinWidth(self, other) ==
    LET wo    == get_bin_len(IF other.has_data THEN other.data ELSE 0)
        new   == CommonBits_init(0, self.data_bin_len + wo)
        raise == ~self.has_data \/ ~other.has_data
        w1    == CommonBits_setitem(new.self,
                                    Slice(new.self.data_bin_len - 1, wo, FALSE),
                                    IF self.has_data THEN self.data ELSE 0)
        w2    == CommonBits_setitem(w1.self, Slice(wo - 1, 0, FALSE),
                                    IF other.has_data THEN other.data ELSE 0)
    IN  [self |-> self, other |-> other,
         ret |-> IF raise THEN NoObject ELSE w2.self,
         printed |-> w1.printed \/ w2.printed,
         raised |-> raise]

\* CommonBits.__and__: the receiver and the operand afterwards, and the
\* object returned (ret)
CommonBits_and(self, other) ==
    LET new   == CommonBits_init(0, self.data_bin_len + other.data_bin_len)
        ms_hi == new.self.data_bin_len - 1
        ms_lo == other.data_bin_len
        ls_hi == other.data_bin_len - 1
        ls_lo == 0
        raise == ~self.has_data \/ ~other.has_data
        w1    == CommonBits_setitem(new.self, Slice(ms_hi, ms_lo, FALSE),
                                    IF self.has_data THEN self.data ELSE 0)
        w2    == CommonBits_setitem(w1.self, Slice(ls_hi, ls_lo, FALSE),
                                    IF other.has_data THEN other.data ELSE 0)
    IN  [self |-> self, other |-> other,
         ret |-> IF raise THEN NoObject ELSE w2.self,
         printed |-> IF ~self.has_data THEN FALSE
                     ELSE IF ~other.has_data THEN w1.printed
                     ELSE w1.printed \/ w2.printed,
         raised |-> raise]

RECURSIVE ScanBits(_, _, _, _)
\* the loop of hi() and lo(): the bits in bit..nof_bits-1 that read as want
ScanBits(data_bits, bit, nof_bits, want) ==
    IF bit >= nof_bits THEN << >>
    ELSE LET r == CommonBits_getitem(data_bits, Index(bit))
         IN  (IF ~r.none /\ r.val = want THEN <<bit>> ELSE << >>)
             \o ScanBits(data_bits, bit + 1, nof_bits, want)

\* CommonBits.hi
CommonBits_hi(self) ==
    IF ~self.has_data THEN [list |-> << >>, raised |-> TRUE]
    ELSE [list |-> ScanBits(CommonBits_init(self.data, 0).self, 0, self.data_bin_len, 1),
          raised |-> FALSE]

\* CommonBits.lo
CommonBits_lo(self) ==
    IF ~self.has_data THEN [list |-> << >>, raised |-> TRUE]
    ELSE [list |-> ScanBits(CommonBits_init(self.data, 0).self, 0, self.data_bin_len, 0),
          raised |-> FALSE]

RECURSIVE PadZeros(_, _)
\* '{:0Nb}': the digits, zero-filled on the left to at least nof_bits characters
PadZeros(digits, nof_bits) ==
    IF Len(digits) >= nof_bits THEN digits
    ELSE PadZeros(<<"0">> \o digits, nof_bits)

\* s[::-1]
ReverseStr(s) == [i \in 1 .. Len(s) |-> s[Len(s) + 1 - i]]

RECURSIVE ParseBin(_)
\* int(s, 2)
ParseBin(s) ==
    IF Len(s) = 0 THEN 0
    ELSE 2 * ParseBin(SubSeq(s, 1, Len(s) - 1)) + (IF s[Len(s)] = "1" THEN 1 ELSE 0)

\* reversed() that formats the value without the zero fill to the width
CommonBits_reversed_NoPad(self) ==
    IF ~self.has_data THEN Outcome(self, 0, TRUE, FALSE, TRUE)
    ELSE Outcome(self, ParseBin(ReverseStr(BinDigits(self.data))), FALSE, FALSE, FALSE)

\* CommonBits.reversed
CommonBits_reversed(self) ==
    IF ~self.has_data THEN Outcome(self, 0, TRUE, FALSE, TRUE)
    ELSE Outcome(self,
                 ParseBin(ReverseStr(PadZeros(BinDigits(self.data), self.data_bin_len))),
                 FALSE, FALSE, FALSE)

(***************************************************************************)
(* Module-level bit helpers.                                               *)
(***************************************************************************)
RECURSIVE reverse_bits_loop(_, _, _)
\* the loop of reverse_bits with todo iterations left
reverse_bits_loop(result, num, todo) ==
    IF todo <= 0 THEN result
    ELSE reverse_bits_loop(ShiftL(result, 1) + BitAnd(num, 1), ShiftR(num, 1), todo - 1)

\* reverse_bits(num, nofBits)
reverse_bits(num, nofBits) == reverse_bits_loop(0, num, nofBits)

\* invert_msbit that leaves out the mask to nofBits bits
invert_msbit_NoMask(num, nofBits) ==
    IF nofBits <= 0 THEN [outp |-> 0, raised |-> TRUE]
    ELSE [outp |-> BitXor(num, Pow2(nofBits - 1)), raised |-> FALSE]

\* invert_msbit(num, nofBits); for nofBits <= 0 the power 2**(nofBits-1) is
\* a float and the bit operators raise TypeError
invert_msbit(num, nofBits) ==
    IF nofBits <= 0 THEN [outp |-> 0, raised |-> TRUE]
    ELSE [outp |-> BitXor(BitAnd(num, Pow2(nofBits) - 1), Pow2(nofBits - 1)),
          raised |-> FALSE]

(***************************************************************************)
(* List helpers.  A Python list is a sequence; a nested list is a sequence *)
(* of sequences.  TLA+ has no run-time type test, so the operators that    *)
(* inspect the nesting of their argument (flatten's hasattr(el,            *)
(* "__iter__"), numpy's array shape) take the nesting depth as a           *)
(* parameter.                                                              *)
(***************************************************************************)
RECURSIVE split_list(_, _)
\* split_list(source_list, split_size) with sublist_items = None and
\* split_size > 0: [source_list[i:i+split_size] for i in range(0, len, split_size)]
split_list(source_list, split_size) ==
    IF Len(source_list) = 0 THEN << >>
    ELSE IF Len(source_list) <= split_size THEN <<source_list>>
    ELSE <<SubSeq(source_list, 1, split_size)>>
         \o split_list(SubSeq(source_list, split_size + 1, Len(source_list)), split_size)

RECURSIVE flatten(_, _)
\* flatten(x) of a list nested depth deep (1 = flat list of integers)
flatten(x, depth) ==
    IF Len(x) = 0 THEN << >>
    ELSE IF depth <= 1 THEN x
    ELSE flatten(Head(x), depth - 1) \o flatten(Tail(x), depth)

\* transpose(matrix): np.array(matrix).transpose().tolist() of a regular
\* nested list with ndim axes; ndarray.transpose() without arguments
\* reverses the order of all axes
transpose(matrix, ndim) ==
    IF Len(matrix) = 0 THEN << >>
    ELSE IF ndim = 2
         THEN [c \in 1 .. Len(matrix[1]) |->
                  [r \in 1 .. Len(matrix) |-> matrix[r][c]]]
         ELSE [b \in 1 .. Len(matrix[1][1]) |->
                  [k \in 1 .. Len(matrix[1]) |->
                      [r \in 1 .. Len(matrix) |-> matrix[r][k][b]]]]

\* deinterleave(input_stream, nof_out, block_size), nof_out > 0 and
\* block_size > 0.  An empty stream passes the argument check and ends in
\* split_list(flat_out_list, 0), where range(0, 0, 0) raises ValueError.
deinterleave(input_stream, nof_out, block_size) ==
    IF Len(input_stream) % (nof_out * block_size) = 0
    THEN LET block_list    == IF block_size > 1
                              THEN split_list(input_stream, block_size)
                              ELSE input_stream
             block_2arr    == split_list(block_list, nof_out)
             transposed    == transpose(block_2arr, IF block_size > 1 THEN 3 ELSE 2)
             flat_out_list == flatten(transposed, IF block_size > 1 THEN 3 ELSE 2)
             sublist_size  == Len(input_stream) \div nof_out
         IN  IF sublist_size = 0
             THEN [result |-> << >>, none |-> TRUE, printed |-> FALSE, raised |-> TRUE]
             ELSE [result |-> split_list(flat_out_list, sublist_size),
                   none |-> FALSE, printed |-> FALSE, raised |-> FALSE]
    ELSE [result |-> << >>, none |-> TRUE, printed |-> TRUE, raised |-> FALSE]

\* op(a, b) for the operators of the do_until_* wrappers
apply_op(op, a, b) ==
    IF op = "eq" THEN a = b
    ELSE IF op = "ne" THEN a # b
    ELSE IF op = "lt" THEN a < b
    ELSE IF op = "le" THEN a <= b
    ELSE IF op = "ge" THEN a >= b
    ELSE a > b

\* the for loop of do_until: list_ok is 1 unless an element fails op(el, val)
check_list(flat_data, op, val) ==
    IF \E i \in 1 .. Len(flat_data) : ~apply_op(op, flat_data[i], val) THEN 0 ELSE 1

(***************************************************************************)
(* class CommonSymbols(CommonBits): a CommonBits object with two more      *)
(* fields, symbol_w and data_symbol_len.  CommonBytes, CommonShorts,       *)
(* CommonWords and CommonWords64 are CommonSymbols with symbol_w fixed to   *)
(* 8, 16, 32 and 64.                                                       *)
(***************************************************************************)
NoSymbols ==
    [exists |-> FALSE, has_data |-> FALSE, data |-> 0, data_bin_len |-> 0,
     symbol_w |-> 0, data_symbol_len |-> 0]

\* ceil_div(num, den) for den > 0: int(math.ceil(num / float(den))), which is
\* exact for the operands that occur here (far below 2^53)
ceil_div(num, den) == -((-num) \div den)

\* CommonSymbols.__init__(data, symbol_w, datasymbols), symbol_w > 0
CommonSymbols_init(data, symbol_w, datasymbols) ==
    LET base == IF datasymbols > 0
                THEN CommonBits_init(data, datasymbols * symbol_w)
                ELSE CommonBits_init(data, 0)
    IN  IF base.raised THEN Outcome(NoSymbols, 0, TRUE, base.printed, TRUE)
        ELSE Outcome([exists |-> TRUE, has_data |-> base.self.has_data,
                      data |-> base.self.data,
                      data_bin_len |-> base.self.data_bin_len,
                      symbol_w |-> symbol_w,
                      data_symbol_len |-> ceil_div(base.self.data_bin_len, symbol_w)],
                     0, TRUE, base.printed, FALSE)

\* symbolslice_to_bitslice that numbers the symbols from the MS end
symbolslice_to_bitslice_FromTop(self, symbolslice) ==
    LET n == self.data_symbol_len
    IN  IF symbolslice.is_slice
        THEN Slice((n - symbolslice.stop) * self.symbol_w - 1,
                   (n - 1 - symbolslice.start) * self.symbol_w, FALSE)
        ELSE Slice((n - symbolslice.start) * self.symbol_w - 1,
                   (n - 1 - symbolslice.start) * self.symbol_w, FALSE)

\* CommonSymbols.symbolslice_to_bitslice: the bit slice is built with step
\* None whatever the step of the symbol slice
symbolslice_to_bitslice(self, symbolslice) ==
    IF symbolslice.is_slice
    THEN LET MSS == symbolslice.start
             LSS == symbolslice.stop
         IN  Slice((1 + MSS) * self.symbol_w - 1, LSS * self.symbol_w, FALSE)
    ELSE LET MSb == (1 + symbolslice.start) * self.symbol_w
             LSb == (1 + symbolslice.start) * self.symbol_w - self.symbol_w
         IN  Slice(MSb - 1, LSb, FALSE)

\* CommonSymbols.__getitem__
CommonSymbols_getitem(self, symbolslice) ==
    CommonBits_getitem(self, symbolslice_to_bitslice(self, symbolslice))

\* CommonSymbols.__setitem__
CommonSymbols_setitem(self, symbolslice, value) ==
    CommonBits_setitem(self, symbolslice_to_bitslice(self, symbolslice), value)

\* CommonSymbols.__len__
CommonSymbols_len(self) == self.data_symbol_len

(***************************************************************************)
(* The quantization functions.                                             *)
(***************************************************************************)
\* int_clip that ignores symmetric
int_clip_Asymmetric(inp, w, symmetric) ==
    IF w > 0
    THEN IF inp > Pow2(w - 1) - 1 THEN Pow2(w - 1) - 1
         ELSE IF inp < -Pow2(w - 1) THEN -Pow2(w - 1)
         ELSE inp
    ELSE 0

\* int_clip that passes the input through for w <= 0
int_clip_PassThrough(inp, w, symmetric) ==
    IF w > 0
    THEN LET clip_p == Pow2(w - 1) - 1
             clip_n == IF symmetric THEN -Pow2(w - 1) + 1 ELSE -Pow2(w - 1)
         IN  IF inp > clip_p THEN clip_p
             ELSE IF inp < clip_n THEN clip_n
             ELSE inp
    ELSE inp

\* int_clip(inp, w, symmetric)
int_clip(inp, w, symmetric) ==
    IF w > 0
    THEN LET clip_p == Pow2(w - 1) - 1
             clip_n == IF symmetric THEN -Pow2(w - 1) + 1 ELSE -Pow2(w - 1)
         IN  IF inp > clip_p THEN clip_p
             ELSE IF inp < clip_n THEN clip_n
             ELSE inp
    ELSE 0

\* int_wrap that tests the sign of inp instead of bit w-1
int_wrap_SignOfInput(inp, w) ==
    IF w > 0
    THEN IF inp >= 0
         THEN BitAnd(inp, Pow2(w - 1) - 1)
         ELSE BitAnd(inp, Pow2(w - 1) - 1) - Pow2(w - 1)
    ELSE 0

\* int_wrap(inp, w)
int_wrap(inp, w) ==
    IF w > 0
    THEN LET wrap_mask == Pow2(w - 1) - 1
             wrap_sign == Pow2(w - 1)
         IN  IF BitAnd(inp, wrap_sign) = 0
             THEN BitAnd(inp, wrap_mask)
             ELSE BitAnd(inp, wrap_mask) - wrap_sign
    ELSE 0

\* rounding that treats every direction as HALF_AWAY
round_lsbs_AllHalfAway(inp, r, direction) ==
    IF inp >= 0 THEN (inp + Pow2(r - 1)) \div Pow2(r)
    ELSE (inp + Pow2(r - 1) - 1) \div Pow2(r)

\* rounding whose HALF_AWAY adds the same half for negative inputs
round_lsbs_AwayAsUp(inp, r, direction) ==
    IF direction \in {"HALF_UP", "HALF_AWAY"} THEN (inp + Pow2(r - 1)) \div Pow2(r)
    ELSE IF direction = "HALF_EVEN"
         THEN IF inp % Pow2(r) = Pow2(r - 1) /\ ((inp + Pow2(r - 1)) \div Pow2(r)) % 2 = 1
              THEN (inp + Pow2(r - 1)) \div Pow2(r) - 1
              ELSE (inp + Pow2(r - 1)) \div Pow2(r)
    ELSE inp

\* rounding whose HALF_EVEN leaves out the step to the even neighbour
round_lsbs_EvenAsUp(inp, r, direction) ==
    IF direction \in {"HALF_UP", "HALF_EVEN"} THEN (inp + Pow2(r - 1)) \div Pow2(r)
    ELSE IF direction = "HALF_AWAY"
         THEN IF inp >= 0 THEN (inp + Pow2(r - 1)) \div Pow2(r)
              ELSE (inp + Pow2(r - 1) - 1) \div Pow2(r)
    ELSE inp

\* the rounding branches of int_round (r > 0), before the optional clip;
\* an unsupported direction leaves outp = inp
round_lsbs(inp, r, direction) ==
    LET round_factor == Pow2(r)
        round_p      == Pow2(r - 1)
        round_n      == Pow2(r - 1) - 1
        half_up      == (inp + round_p) \div round_factor
    IN  IF direction = "HALF_UP" THEN half_up
        ELSE IF direction = "HALF_AWAY"
             THEN IF inp >= 0 THEN (inp + round_p) \div round_factor
                  ELSE (inp + round_n) \div round_factor
        ELSE IF direction = "HALF_EVEN"
             THEN IF inp % round_factor = round_p /\ half_up % 2 = 1
                  THEN half_up - 1
                  ELSE half_up
        ELSE inp

\* int_round whose clip also clamps at the signed minimum
int_round_ClipBothSides(inp, r, direction, clip, outp_w) ==
    IF r > 0
    THEN LET outp == round_lsbs(inp, r, direction)
         IN  IF clip /\ outp > Pow2(outp_w - 1) - 1 THEN Pow2(outp_w - 1) - 1
             ELSE IF clip /\ outp < -Pow2(outp_w - 1) THEN -Pow2(outp_w - 1)
             ELSE outp
    ELSE inp

\* int_round that applies the clip for r <= 0 as well
int_round_ClipAlways(inp, r, direction, clip, outp_w) ==
    LET outp     == IF r > 0 THEN round_lsbs(inp, r, direction) ELSE inp
        clip_max == Pow2(outp_w - 1) - 1
    IN  IF clip /\ outp > clip_max THEN clip_max ELSE outp

\* int_round(inp, r, direction, clip, outp_w), for outp_w >= 1 when clip is set
int_round(inp, r, direction, clip, outp_w) ==
    IF r > 0
    THEN LET outp     == round_lsbs(inp, r, direction)
             clip_max == Pow2(outp_w - 1) - 1
         IN  IF clip /\ outp > clip_max THEN clip_max ELSE outp
    ELSE inp

\* int_round prints 'Error: unsupported round direction' (line 201)
int_round_printed(r, direction) ==
    r > 0 /\ direction \notin {"HALF_UP", "HALF_AWAY", "HALF_EVEN"}

\* uint_round(inp, r, direction, clip, outp_w): the value returned; for
\* inp < 0 the error is printed and None is returned
uint_round(inp, r, direction, clip, outp_w) ==
    IF inp >= 0
    THEN [outp |-> int_round(inp, r, direction, clip, outp_w + 1), none |-> FALSE,
          printed |-> int_round_printed(r, direction)]
    ELSE [outp |-> 0, none |-> TRUE, printed |-> TRUE]

\* int_truncate that shifts right in both modes
int_truncate_AlwaysFloor(inp, r, direction) ==
    IF r > 0 THEN ShiftR(inp, r) ELSE inp

\* int_truncate(inp, r, direction)
int_truncate(inp, r, direction) ==
    IF r > 0
    THEN IF direction = "SYMMETRIC"
         THEN IF inp >= 0 THEN ShiftR(inp, r) ELSE -ShiftR(-inp, r)
         ELSE ShiftR(inp, r)
    ELSE inp

\* int_requantize without the wrap to the input width
int_requantize_NoInputWrap(inp, inp_w, outp_w, lsb_w, lsb_round, msb_clip, gain_w) ==
    LET r1 == IF lsb_round
              THEN int_round(inp, lsb_w, "HALF_AWAY", FALSE, 0)
              ELSE int_truncate(inp, lsb_w, "")
        r2 == IF msb_clip THEN int_clip(r1, outp_w, FALSE) ELSE int_wrap(r1, outp_w)
    IN  int_wrap(ShiftL(r2, gain_w), outp_w)

\* int_requantize that reduces the MSBs before it removes the LSBs
int_requantize_MsbFirst(inp, inp_w, outp_w, lsb_w, lsb_round, msb_clip, gain_w) ==
    LET r0 == int_wrap(inp, inp_w)
        r1 == IF msb_clip THEN int_clip(r0, outp_w, FALSE) ELSE int_wrap(r0, outp_w)
        r2 == IF lsb_round
              THEN int_round(r1, lsb_w, "HALF_AWAY", FALSE, 0)
              ELSE int_truncate(r1, lsb_w, "")
    IN  int_wrap(ShiftL(r2, gain_w), outp_w)

\* int_requantize that wraps the MSBs whatever msb_clip says
int_requantize_WrapMsb(inp, inp_w, outp_w, lsb_w, lsb_round, msb_clip, gain_w) ==
    LET r0 == int_wrap(inp, inp_w)
        r1 == IF lsb_round
              THEN int_round(r0, lsb_w, "HALF_AWAY", FALSE, 0)
              ELSE int_truncate(r0, lsb_w, "")
        r2 == int_wrap(r1, outp_w)
    IN  int_wrap(ShiftL(r2, gain_w), outp_w)

\* int_requantize(inp, inp_w, outp_w, lsb_w, lsb_round, msb_clip, gain_w)
int_requantize(inp, inp_w, outp_w, lsb_w, lsb_round, msb_clip, gain_w) ==
    LET r0 == int_wrap(inp, inp_w)
        r1 == IF lsb_round
              THEN int_round(r0, lsb_w, "HALF_AWAY", FALSE, 0)
              ELSE int_truncate(r0, lsb_w, "")
        r2 == IF msb_clip THEN int_clip(r1, outp_w, FALSE) ELSE int_wrap(r1, outp_w)
        r3 == ShiftL(r2, gain_w)
    IN  int_wrap(r3, outp_w)

(***************************************************************************)
(* The state: obj is the CommonBits object the caller holds (NoObject      *)
(* before the first construction), ret records the last call on it, and q  *)
(* records the last call of a quantization function.  A call is made when  *)
(* the caller has dealt with the previous result (Discard, DiscardQ).      *)
(***************************************************************************)
RetIdle ==
    [op |-> "none", data |-> 0, bits |-> 0, bitslice |-> Index(0), value |-> 0,
     before |-> NoObject, other |-> NoObject, after |-> NoObject,
     other_after |-> NoObject, new |-> NoObject,
     val |-> 0, none |-> TRUE, list |-> << >>, printed |-> FALSE, raised |-> FALSE]

QIdle ==
    [fn |-> "none", inp |-> 0, w |-> 0, r |-> 0, inp_w |-> 0, outp_w |-> 0,
     lsb_w |-> 0, lsb_round |-> FALSE, msb_clip |-> FALSE, gain_w |-> 0,
     symmetric |-> FALSE, direction |-> "", clip |-> FALSE, outp |-> 0,
     none |-> FALSE, printed |-> FALSE]

SretIdle ==
    [op |-> "none", data |-> 0, symbol_w |-> 0, datasymbols |-> 0,
     symbolslice |-> Index(0), value |-> 0,
     before |-> NoSymbols, after |-> NoSymbols, new |-> NoSymbols,
     val |-> 0, none |-> TRUE, printed |-> FALSE, raised |-> FALSE]

HIdle ==
    [fn |-> "none", num |-> 0, nofBits |-> 0, input_stream |-> << >>,
     nof_out |-> 0, block_size |-> 0, outp |-> 0, result |-> << >>,
     none |-> FALSE, printed |-> FALSE, raised |-> FALSE]

\* do_until is not running; a result is a Python value: an integer
\* (ret_kind "int"), a string ("str") or nothing yet ("none")
DuIdle ==
    [pc |-> "idle", val |-> 0, op |-> "eq", s_timeout |-> 0, elapsed |-> 0,
     list_ok |-> 0, flat_data |-> << >>, called |-> FALSE,
     ret_kind |-> "none", ret_int |-> 0, ret_str |-> "",
     printed |-> FALSE, raised |-> FALSE]

DataArgs == -1 .. MaxData
BitsArgs == 0 .. MaxBits
Positions == -1 .. MaxWidth
Values == -2 .. MaxValue
Subscripts ==
    {Slice(h, l, s) : h \in Positions, l \in Positions, s \in BOOLEAN}
    \cup {Index(i) : i \in Positions}

Inputs == -MaxInp .. MaxInp
Widths == 1 .. MaxW
AnyWidths == -1 .. MaxW
Shifts == 0 .. MaxShift
AnyShifts == -1 .. MaxShift
Directions == {"HALF_UP", "HALF_AWAY", "HALF_EVEN", "HALF_DOWN"}

Init ==
    /\ obj = NoObject
    /\ ret = RetIdle
    /\ q = QIdle
    /\ sym = NoSymbols
    /\ sret = SretIdle
    /\ hlp = HIdle
    /\ du = DuIdle

\* c = CommonBits(data, bits); a constructor that raises leaves c as it was
New(data, bits) ==
    LET r == CommonBits_init(data, bits)
    IN  /\ ret.op = "none"
        /\ obj' = IF r.raised THEN obj ELSE r.self
        /\ ret' = [RetIdle EXCEPT !.op = "init", !.data = data, !.bits = bits,
                                  !.new = r.self, !.printed = r.printed,
                                  !.raised = r.raised]
        /\ UNCHANGED <<q, sym, sret, hlp, du>>

\* c[bitslice]
GetItem(bitslice) ==
    LET r == CommonBits_getitem(obj, bitslice)
    IN  /\ ret.op = "none"
        /\ obj.exists
        /\ obj' = r.self
        /\ ret' = [RetIdle EXCEPT !.op = "getitem", !.bitslice = bitslice,
                                  !.before = obj, !.after = r.self,
                                  !.val = r.val, !.none = r.none,
                                  !.printed = r.printed, !.raised = r.raised]
        /\ UNCHANGED <<q, sym, sret, hlp, du>>

\* c[bitslice] = value
SetItem(bitslice, value) ==
    LET r == CommonBits_setitem(obj, bitslice, value)
    IN  /\ ret.op = "none"
        /\ obj.exists
        /\ obj' = r.self
        /\ ret' = [RetIdle EXCEPT !.op = "setitem", !.bitslice = bitslice,
                                  !.value = value,
                                  !.before = obj, !.after = r.self,
                                  !.printed = r.printed, !.raised = r.raised]
        /\ UNCHANGED <<q, sym, sret, hlp, du>>

\* c = c & CommonBits(data, bits)   (self_left)
\* c = CommonBits(data, bits) & c   (otherwise)
And(data, bits, self_left) ==
    LET arg   == CommonBits_init(data, bits).self
        left  == IF self_left THEN obj ELSE arg
        right == IF self_left THEN arg ELSE obj
        r     == CommonBits_and(left, right)
    IN  /\ ret.op = "none"
        /\ obj.exists
        /\ arg.exists
        /\ obj.data_bin_len + arg.data_bin_len <= MaxWidth
        /\ obj' = IF r.raised THEN obj ELSE r.ret
        /\ ret' = [RetIdle EXCEPT !.op = "and", !.data = data, !.bits = bits,
                                  !.before = left, !.other = right,
                                  !.after = r.self, !.other_after = r.other,
                                  !.new = r.ret,
                                  !.printed = r.printed, !.raised = r.raised]
        /\ UNCHANGED <<q, sym, sret, hlp, du>>

\* c.hi()
Hi ==
    LET r == CommonBits_hi(obj)
    IN  /\ ret.op = "none"
        /\ obj.exists
        /\ ret' = [RetIdle EXCEPT !.op = "hi", !.before = obj, !.after = obj,
                                  !.list = r.list, !.raised = r.raised]
        /\ UNCHANGED <<obj, q, sym, sret, hlp, du>>

\* c.lo()
Lo ==
    LET r == CommonBits_lo(obj)
    IN  /\ ret.op = "none"
        /\ obj.exists
        /\ ret' = [RetIdle EXCEPT !.op = "lo", !.before = obj, !.after = obj,
                                  !.list = r.list, !.raised = r.raised]
        /\ UNCHANGED <<obj, q, sym, sret, hlp, du>>

\* c.reversed()
Reversed ==
    LET r == CommonBits_reversed(obj)
    IN  /\ ret.op = "none"
        /\ obj.exists
        /\ obj' = r.self
        /\ ret' = [RetIdle EXCEPT !.op = "reversed", !.before = obj,
                                  !.after = r.self, !.val = r.val,
                                  !.none = r.none, !.raised = r.raised]
        /\ UNCHANGED <<q, sym, sret, hlp, du>>

\* the caller is done with the result of the last call
Discard ==
    /\ ret.op # "none"
    /\ ret' = RetIdle
    /\ UNCHANGED <<obj, q, sym, sret, hlp, du>>

Idle == ret.op = "none"

Next ==
    \/ Idle /\ \E data \in DataArgs, bits \in BitsArgs : New(data, bits)
    \/ Idle /\ \E bitslice \in Subscripts : GetItem(bitslice)
    \/ Idle /\ \E bitslice \in Subscripts, value \in Values : SetItem(bitslice, value)
    \/ Idle /\ \E data \in DataArgs, bits \in BitsArgs, self_left \in BOOLEAN :
                   And(data, bits, self_left)
    \/ Hi
    \/ Lo
    \/ Reversed
    \/ Discard

Spec == Init /\ [][Next]_vars

(***************************************************************************)
(* Calls of the quantization functions.                                    *)
(***************************************************************************)
Call_int_clip(inp, w, symmetric) ==
    /\ q.fn = "none"
    /\ q' = [QIdle EXCEPT !.fn = "int_clip", !.inp = inp, !.w = w,
                          !.symmetric = symmetric,
                          !.outp = int_clip(inp, w, symmetric)]
    /\ UNCHANGED <<obj, ret, sym, sret, hlp, du>>

Call_int_wrap(inp, w) ==
    /\ q.fn = "none"
    /\ q' = [QIdle EXCEPT !.fn = "int_wrap", !.inp = inp, !.w = w,
                          !.outp = int_wrap(inp, w)]
    /\ UNCHANGED <<obj, ret, sym, sret, hlp, du>>

Call_int_round(inp, r, direction, clip, outp_w) ==
    /\ q.fn = "none"
    /\ q' = [QIdle EXCEPT !.fn = "int_round", !.inp = inp, !.r = r,
                          !.direction = direction, !.clip = clip,
                          !.outp_w = outp_w,
                          !.outp = int_round(inp, r, direction, clip, outp_w),
                          !.printed = int_round_printed(r, direction)]
    /\ UNCHANGED <<obj, ret, sym, sret, hlp, du>>

Call_uint_round(inp, r, direction, clip, outp_w) ==
    LET u == uint_round(inp, r, direction, clip, outp_w)
    IN  /\ q.fn = "none"
        /\ q' = [QIdle EXCEPT !.fn = "uint_round", !.inp = inp, !.r = r,
                              !.direction = direction, !.clip = clip,
                              !.outp_w = outp_w,
                              !.outp = u.outp, !.none = u.none,
                              !.printed = u.printed]
        /\ UNCHANGED <<obj, ret, sym, sret, hlp, du>>

Call_int_truncate(inp, r, direction) ==
    /\ q.fn = "none"
    /\ q' = [QIdle EXCEPT !.fn = "int_truncate", !.inp = inp, !.r = r,
                          !.direction = direction,
                          !.outp = int_truncate(inp, r, direction)]
    /\ UNCHANGED <<obj, ret, sym, sret, hlp, du>>

Call_int_requantize(inp, inp_w, outp_w, lsb_w, lsb_round, msb_clip, gain_w) ==
    /\ q.fn = "none"
    /\ q' = [QIdle EXCEPT !.fn = "int_requantize", !.inp = inp,
                          !.inp_w = inp_w, !.outp_w = outp_w, !.lsb_w = lsb_w,
                          !.lsb_round = lsb_round, !.msb_clip = msb_clip,
                          !.gain_w = gain_w,
                          !.outp = int_requantize(inp, inp_w, outp_w, lsb_w,
                                                  lsb_round, msb_clip, gain_w)]
    /\ UNCHANGED <<obj, ret, sym, sret, hlp, du>>

\* the caller is done with the result of the last call
DiscardQ ==
    /\ q.fn # "none"
    /\ q' = QIdle
    /\ UNCHANGED <<obj, ret, sym, sret, hlp, du>>

IdleQ == q.fn = "none"

NextQ ==
    \/ IdleQ /\ \E inp \in Inputs, w \in AnyWidths, symmetric \in BOOLEAN :
                    Call_int_clip(inp, w, symmetric)
    \/ IdleQ /\ \E inp \in Inputs, w \in AnyWidths : Call_int_wrap(inp, w)
    \/ IdleQ /\ \E inp \in Inputs, r \in AnyShifts, direction \in Directions,
                   clip \in BOOLEAN, outp_w \in Widths :
                    Call_int_round(inp, r, direction, clip, outp_w)
    \/ IdleQ /\ \E inp \in Inputs, r \in AnyShifts, direction \in Directions,
                   clip \in BOOLEAN, outp_w \in Widths :
                    Call_uint_round(inp, r, direction, clip, outp_w)
    \/ IdleQ /\ \E inp \in Inputs, r \in AnyShifts, direction \in {"", "SYMMETRIC"} :
                    Call_int_truncate(inp, r, direction)
    \/ IdleQ /\ \E inp \in Inputs, inp_w \in Widths, outp_w \in Widths,
                   lsb_w \in Shifts, lsb_round \in BOOLEAN, msb_clip \in BOOLEAN,
                   gain_w \in Shifts :
                    Call_int_requantize(inp, inp_w, outp_w, lsb_w, lsb_round,
                                        msb_clip, gain_w)
    \/ DiscardQ

SpecQ == Init /\ [][NextQ]_vars

(***************************************************************************)
(* Calls on a symbol view: sym is the CommonSymbols object the caller      *)
(* holds, sret records the last call on it.                                *)
(***************************************************************************)
SymDataArgs == -1 .. MaxSymData
SymbolWidths == 1 .. MaxSymbolW
SymbolCounts == -1 .. MaxSymbols
SymPositions == -1 .. MaxSymbols
SymValues == -2 .. MaxSymValue
SymSubscripts ==
    {Slice(hs, ls, s) : hs \in SymPositions, ls \in SymPositions, s \in BOOLEAN}
    \cup {Index(i) : i \in SymPositions}

\* v = CommonSymbols(data, symbol_w, datasymbols); a constructor that raises
\* leaves v as it was
NewSymbols(data, symbol_w, datasymbols) ==
    LET r == CommonSymbols_init(data, symbol_w, datasymbols)
    IN  /\ sret.op = "none"
        /\ sym' = IF r.raised THEN sym ELSE r.self
        /\ sret' = [SretIdle EXCEPT !.op = "init", !.data = data,
                                    !.symbol_w = symbol_w,
                                    !.datasymbols = datasymbols,
                                    !.new = r.self, !.printed = r.printed,
                                    !.raised = r.raised]
        /\ UNCHANGED <<obj, ret, q, hlp, du>>

\* v[symbolslice]
GetSymbols(symbolslice) ==
    LET r == CommonSymbols_getitem(sym, symbolslice)
    IN  /\ sret.op = "none"
        /\ sym.exists
        /\ sym' = r.self
        /\ sret' = [SretIdle EXCEPT !.op = "getitem", !.symbolslice = symbolslice,
                                    !.before = sym, !.after = r.self,
                                    !.val = r.val, !.none = r.none,
                                    !.printed = r.printed, !.raised = r.raised]
        /\ UNCHANGED <<obj, ret, q, hlp, du>>

\* v[symbolslice] = value
SetSymbols(symbolslice, value) ==
    LET r == CommonSymbols_setitem(sym, symbolslice, value)
    IN  /\ sret.op = "none"
        /\ sym.exists
        /\ sym' = r.self
        /\ sret' = [SretIdle EXCEPT !.op = "setitem", !.symbolslice = symbolslice,
                                    !.value = value,
                                    !.before = sym, !.after = r.self,
                                    !.printed = r.printed, !.raised = r.raised]
        /\ UNCHANGED <<obj, ret, q, hlp, du>>

\* len(v)
LenSymbols ==
    /\ sret.op = "none"
    /\ sym.exists
    /\ sret' = [SretIdle EXCEPT !.op = "len", !.before = sym, !.after = sym,
                                !.val = CommonSymbols_len(sym), !.none = FALSE]
    /\ UNCHANGED <<obj, ret, q, sym, hlp, du>>

\* the caller is done with the result of the last call
DiscardS ==
    /\ sret.op # "none"
    /\ sret' = SretIdle
    /\ UNCHANGED <<obj, ret, q, sym, hlp, du>>

IdleS == sret.op = "none"

NextS ==
    \/ IdleS /\ \E data \in SymDataArgs, symbol_w \in SymbolWidths,
                   datasymbols \in SymbolCounts :
                    NewSymbols(data, symbol_w, datasymbols)
    \/ IdleS /\ \E symbolslice \in SymSubscripts : GetSymbols(symbolslice)
    \/ IdleS /\ \E symbolslice \in SymSubscripts, value \in SymValues :
                    SetSymbols(symbolslice, value)
    \/ LenSymbols
    \/ DiscardS

SpecS == Init /\ [][NextS]_vars

(***************************************************************************)
(* Calls of the module-level helpers; hlp records the last call.           *)
(***************************************************************************)
Nums == -MaxNum .. MaxNum
NofBits == 0 .. MaxNofBits
Streams == UNION {[1 .. n -> 1 .. MaxElem] : n \in 0 .. MaxStream}
NofOuts == 1 .. MaxOut
BlockSizes == 1 .. MaxBlock

Call_reverse_bits(num, nofBits) ==
    /\ hlp.fn = "none"
    /\ hlp' = [HIdle EXCEPT !.fn = "reverse_bits", !.num = num,
                            !.nofBits = nofBits,
                            !.outp = reverse_bits(num, nofBits)]
    /\ UNCHANGED <<obj, ret, q, sym, sret, du>>

Call_invert_msbit(num, nofBits) ==
    LET r == invert_msbit(num, nofBits)
    IN  /\ hlp.fn = "none"
        /\ hlp' = [HIdle EXCEPT !.fn = "invert_msbit", !.num = num,
                                !.nofBits = nofBits,
                                !.outp = r.outp, !.none = r.raised,
                                !.raised = r.raised]
        /\ UNCHANGED <<obj, ret, q, sym, sret, du>>

Call_deinterleave(input_stream, nof_out, block_size) ==
    LET r == deinterleave(input_stream, nof_out, block_size)
    IN  /\ hlp.fn = "none"
        /\ hlp' = [HIdle EXCEPT !.fn = "deinterleave",
                                !.input_stream = input_stream,
                                !.nof_out = nof_out, !.block_size = block_size,
                                !.result = r.result, !.none = r.none,
                                !.printed = r.printed, !.raised = r.raised]
        /\ UNCHANGED <<obj, ret, q, sym, sret, du>>

\* the caller is done with the result of the last call
DiscardH ==
    /\ hlp.fn # "none"
    /\ hlp' = HIdle
    /\ UNCHANGED <<obj, ret, q, sym, sret, du>>

IdleH == hlp.fn = "none"

NextH ==
    \/ IdleH /\ \E num \in Nums, nofBits \in NofBits : Call_reverse_bits(num, nofBits)
    \/ IdleH /\ \E num \in Nums, nofBits \in NofBits : Call_invert_msbit(num, nofBits)
    \/ IdleH /\ \E input_stream \in Streams, nof_out \in NofOuts,
                   block_size \in BlockSizes :
                    Call_deinterleave(input_stream, nof_out, block_size)
    \/ DiscardH

SpecH == Init /\ [][NextH]_vars

(***************************************************************************)
(* do_until(method, val, op, ms_retry, s_timeout) as a process: du.pc is   *)
(* its position, du.elapsed is time.time() - start in seconds.  The polled *)
(* method returns any list; a call of it and the sleep of ms_retry         *)
(* milliseconds each take 0..MaxStep seconds.                              *)
(***************************************************************************)
Operators == {"eq", "ne", "lt", "le", "ge", "gt"}
Timeouts == -1 .. MaxTimeout
Steps == 0 .. MaxStep
MethodReturns == UNION {[1 .. n -> 0 .. MaxRet] : n \in 0 .. MaxRetLen}

Later(elapsed, dt) == IF elapsed + dt > MaxElapsed THEN MaxElapsed ELSE elapsed + dt

\* do_until(method, val, op, ms_retry, s_timeout): list_ok = 0, start = now
Call_do_until(val, op, s_timeout) ==
    /\ du.pc = "idle"
    /\ du' = [DuIdle EXCEPT !.pc = "while", !.val = val, !.op = op,
                            !.s_timeout = s_timeout]
    /\ UNCHANGED <<obj, ret, q, sym, sret, hlp>>

\* while list_ok == 0: the timeout test at the head of the loop body
CheckTimeout ==
    /\ du.pc = "while"
    /\ du' = IF du.s_timeout >= 0 /\ du.elapsed >= du.s_timeout
             THEN [du EXCEPT !.pc = "done", !.printed = TRUE,
                             !.ret_kind = "str", !.ret_str = "Timeout"]
             ELSE [du EXCEPT !.pc = "call"]
    /\ UNCHANGED <<obj, ret, q, sym, sret, hlp>>

\* data.append(method()), flatten, the for loop, and the return of
\* flat_data[0] when list_ok == 1 (IndexError on an empty list)
CallMethod(returned, dt) ==
    LET flat_data == flatten(<<returned>>, 2)
        list_ok   == check_list(flat_data, du.op, du.val)
    IN  /\ du.pc = "call"
        /\ du' = IF list_ok = 0
                 THEN [du EXCEPT !.pc = "sleep", !.flat_data = flat_data,
                                 !.list_ok = 0, !.called = TRUE,
                                 !.elapsed = Later(du.elapsed, dt)]
                 ELSE IF Len(flat_data) = 0
                 THEN [du EXCEPT !.pc = "done", !.flat_data = flat_data,
                                 !.list_ok = 1, !.called = TRUE,
                                 !.elapsed = Later(du.elapsed, dt),
                                 !.raised = TRUE]
                 ELSE [du EXCEPT !.pc = "done", !.flat_data = flat_data,
                                 !.list_ok = 1, !.called = TRUE,
                                 !.elapsed = Later(du.elapsed, dt),
                                 !.ret_kind = "int", !.ret_int = flat_data[1]]
        /\ UNCHANGED <<obj, ret, q, sym, sret, hlp>>

\* time.sleep(ms_retry/1000.0), then back to the head of the loop
Sleep(dt) ==
    /\ du.pc = "sleep"
    /\ du' = [du EXCEPT !.pc = "while", !.elapsed = Later(du.elapsed, dt)]
    /\ UNCHANGED <<obj, ret, q, sym, sret, hlp>>

\* the caller is done with the result of do_until
DiscardD ==
    /\ du.pc = "done"
    /\ du' = DuIdle
    /\ UNCHANGED <<obj, ret, q, sym, sret, hlp>>

IdleD == du.pc = "idle"

NextD ==
    \/ IdleD /\ \E val \in 0 .. MaxRet, op \in Operators, s_timeout \in Timeouts :
                    Call_do_until(val, op, s_timeout)
    \/ CheckTimeout
    \/ \E returned \in MethodReturns, dt \in Steps : CallMethod(returned, dt)
    \/ \E dt \in Steps : Sleep(dt)
    \/ DiscardD

SpecD == Init /\ [][NextD]_vars

(***************************************************************************)
(* Reference notions the properties are stated with.                       *)
(***************************************************************************)
\* bit i of the non-negative integer n
Bit(n, i) == (n \div Pow2(i)) % 2

\* the container invariant: the object holds a value within its width
Fits(o) == o.exists /\ o.has_data /\ 0 <= o.data /\ o.data < Pow2(o.data_bin_len)

\* the signed range of w bits
SignedMin(w) == -Pow2(w - 1)
SignedMax(w) == Pow2(w - 1) - 1
InSigned(v, w) == SignedMin(w) <= v /\ v <= SignedMax(w)

Min(a, b) == IF a <= b THEN a ELSE b
Max(a, b) == IF a >= b THEN a ELSE b

\* the representative of v modulo 2^w in the signed range of w bits
RefWrap(v, w) == CHOOSE y \in SignedMin(w) .. SignedMax(w) : (y - v) % Pow2(w) = 0

\* saturation to the signed range of w bits
RefClip(v, w) == Min(Max(v, SignedMin(w)), SignedMax(w))

\* v / 2^n rounded to nearest, ties away from zero
RefRoundAway(v, n) ==
    IF n = 0 THEN v
    ELSE IF v >= 0 THEN (v + Pow2(n - 1)) \div Pow2(n)
    ELSE -((-v + Pow2(n - 1)) \div Pow2(n))

\* v / 2^n rounded toward minus infinity
RefFloor(v, n) == v \div Pow2(n)

\* the staged reference of requantization
RefRequantize(v, inp_w, outp_w, lsb_w, lsb_round, msb_clip, gain_w) ==
    LET a == RefWrap(v, inp_w)
        b == IF lsb_round THEN RefRoundAway(a, lsb_w) ELSE RefFloor(a, lsb_w)
        c == IF msb_clip THEN RefClip(b, outp_w) ELSE RefWrap(b, outp_w)
    IN  RefWrap(c * Pow2(gain_w), outp_w)

\* the indices 0..w-1 of o whose bit is v, in ascending order
IsAscendingBitList(list, o, v) ==
    /\ \A k \in 1 .. Len(list) :
           /\ list[k] \in 0 .. o.data_bin_len - 1
           /\ Bit(o.data, list[k]) = v
           /\ k > 1 => list[k - 1] < list[k]
    /\ \A i \in 0 .. o.data_bin_len - 1 :
           Bit(o.data, i) = v => \E k \in 1 .. Len(list) : list[k] = i

(***************************************************************************)
(* Properties of the bit-field container (specification Spec).             *)
(***************************************************************************)

\* C1: the stored value of the container always satisfies
\* 0 <= data < 2^width, after construction and after every operation.
C1_DataWithinWidth ==
    (obj.exists /\ obj.has_data) =>
        (0 <= obj.data /\ obj.data < Pow2(obj.data_bin_len))

\* C2: constructing with an explicit width bits > 0 from a non-negative
\* value that needs more than bits bits produces no container (the value is
\* neither kept nor truncated).
C2_OverflowConstructionFails ==
    (ret.op = "init" /\ ret.bits > 0 /\ ret.data >= Pow2(ret.bits)) =>
        ~ret.new.exists

\* the last call was the range write c[h:l] = x on a container of width w
\* with 0 <= l <= h < w
ValidRangeWrite ==
    /\ ret.op = "setitem"
    /\ ret.bitslice.is_slice
    /\ ~ret.bitslice.has_step
    /\ ret.before.has_data
    /\ 0 <= ret.bitslice.stop
    /\ ret.bitslice.stop <= ret.bitslice.start
    /\ ret.bitslice.start < ret.before.data_bin_len

\* C3: after a range write c[h:l] = x with 0 <= l <= h < w and
\* 0 <= x < 2^(h-l+1), the range read c[h:l] returns x and every bit outside
\* [h:l] is as it was before the write.
C3_RangeWriteRoundTrip ==
    (ValidRangeWrite /\ 0 <= ret.value
                     /\ ret.value < Pow2(ret.bitslice.start - ret.bitslice.stop + 1)) =>
        LET h  == ret.bitslice.start
            l  == ret.bitslice.stop
            rd == CommonBits_getitem(ret.after, ret.bitslice)
        IN  /\ ~ret.printed /\ ~ret.raised
            /\ ~rd.none /\ rd.val = ret.value
            /\ ret.after.data \div Pow2(h + 1) = ret.before.data \div Pow2(h + 1)
            /\ ret.after.data % Pow2(l) = ret.before.data % Pow2(l)
            /\ ret.after.data_bin_len = ret.before.data_bin_len

\* a range write strictly inside the container that changes the range while
\* set bits lie below and above it
C3_Witness ==
    /\ ValidRangeWrite
    /\ 0 < ret.value
    /\ ret.value < Pow2(ret.bitslice.start - ret.bitslice.stop + 1)
    /\ ret.bitslice.stop > 0
    /\ ret.bitslice.start < ret.before.data_bin_len - 1
    /\ ret.bitslice.start > ret.bitslice.stop
    /\ Bit(ret.before.data, 0) = 1
    /\ Bit(ret.before.data, ret.bitslice.start + 1) = 1
    /\ ret.after.data # ret.before.data

\* C4: for containers a and b that satisfy the invariant, a & b is a new
\* container of width a.width + b.width with data a.data * 2^b.width + b.data:
\* its bits [a.width+b.width-1 : b.width] read as a.data and its bits
\* [b.width-1 : 0] as b.data; a and b are left unchanged.
C4_Concatenate ==
    (ret.op = "and" /\ Fits(ret.before) /\ Fits(ret.other)) =>
        LET a  == ret.before
            b  == ret.other
            wa == a.data_bin_len
            wb == b.data_bin_len
            ms == CommonBits_getitem(ret.new, Slice(wa + wb - 1, wb, FALSE))
            ls == CommonBits_getitem(ret.new, Slice(wb - 1, 0, FALSE))
        IN  /\ ~ret.raised /\ ~ret.printed
            /\ ret.new.exists /\ ret.new.has_data
            /\ ret.new.data_bin_len = wa + wb
            /\ ret.new.data = a.data * Pow2(wb) + b.data
            /\ ~ms.none /\ ms.val = a.data
            /\ ~ls.none /\ ls.val = b.data
            /\ ret.after = a
            /\ ret.other_after = b

\* a concatenation of two different non-zero containers of different widths
C4_Witness ==
    /\ ret.op = "and"
    /\ Fits(ret.before) /\ Fits(ret.other)
    /\ ret.before.data > 0 /\ ret.other.data > 0
    /\ ret.before.data # ret.other.data
    /\ ret.before.data_bin_len > ret.other.data_bin_len

\* C5: on a container within its width, hi() is exactly the ascending list
\* of the indices in 0..w-1 whose bit is 1 and lo() the ascending list of
\* those whose bit is 0, the zero bits above the most significant set bit
\* included.
C5_HiLoExact ==
    (ret.op \in {"hi", "lo"} /\ Fits(ret.before)) =>
        /\ ~ret.raised
        /\ IsAscendingBitList(ret.list, ret.before, IF ret.op = "hi" THEN 1 ELSE 0)

(***************************************************************************)
(* Properties of the quantization functions (specification SpecQ).         *)
(***************************************************************************)

\* the last call was int_requantize(v, w, w, lsb_w=0, lsb_round=False,
\* msb_clip=True, gain_w=0)
PlainClipRequantize ==
    /\ q.fn = "int_requantize"
    /\ q.inp_w = q.outp_w
    /\ q.lsb_w = 0 /\ ~q.lsb_round /\ q.msb_clip /\ q.gain_w = 0

\* C6 as stated: for every w > 0 and every integer v, also outside the signed
\* range of w bits, int_requantize(v, w, w, 0, False, True, 0) = int_clip(v, w).
C6_RequantizeIsClip ==
    PlainClipRequantize => q.outp = int_clip(q.inp, q.outp_w, FALSE)

\* C6 amended: int_requantize(v, w, w, 0, False, True, 0) equals
\* int_clip(int_wrap(v, w), w) for every integer v, which is int_clip(v, w)
\* (= v) for every v inside the signed range of w bits.
C6_RequantizeIsClipOfWrapped ==
    PlainClipRequantize =>
        /\ q.outp = int_clip(int_wrap(q.inp, q.inp_w), q.outp_w, FALSE)
        /\ InSigned(q.inp, q.inp_w) =>
               /\ q.outp = int_clip(q.inp, q.outp_w, FALSE)
               /\ q.outp = q.inp

\* such a call on a value above the signed range, which comes back wrapped
C6_Witness ==
    /\ PlainClipRequantize
    /\ q.inp > SignedMax(q.inp_w)
    /\ q.outp < 0

\* C7: int_requantize equals the staged reference
\* wrap(M(L(wrap(v, inp_w))) * 2^gain_w, outp_w): L removes lsb_w LSBs by
\* round-half-away-from-zero (lsb_round) or by floor shift, M is clip
\* (msb_clip) or wrap to outp_w, in this order, the gain last.
C7_RequantizeStages ==
    q.fn = "int_requantize" =>
        q.outp = RefRequantize(q.inp, q.inp_w, q.outp_w, q.lsb_w, q.lsb_round,
                               q.msb_clip, q.gain_w)

\* a call that uses every stage: input outside its width, rounding of a
\* negative tie, clipping that saturates, and a gain
C7_Witness ==
    /\ q.fn = "int_requantize"
    /\ ~InSigned(q.inp, q.inp_w)
    /\ q.lsb_w > 0 /\ q.lsb_round /\ q.msb_clip /\ q.gain_w > 0
    /\ RefWrap(q.inp, q.inp_w) < 0
    /\ RefWrap(q.inp, q.inp_w) % Pow2(q.lsb_w) = Pow2(q.lsb_w - 1)
    /\ ~InSigned(RefRoundAway(RefWrap(q.inp, q.inp_w), q.lsb_w), q.outp_w)

\* C8: for w > 0, int_clip(v, w, symmetric) = min(max(v, low), 2^(w-1)-1)
\* with low = -2^(w-1), or -2^(w-1)+1 when symmetric; v inside [low, high]
\* comes back unchanged.
C8_Clip ==
    (q.fn = "int_clip" /\ q.w > 0) =>
        LET low  == IF q.symmetric THEN SignedMin(q.w) + 1 ELSE SignedMin(q.w)
            high == SignedMax(q.w)
        IN  /\ q.outp = Min(Max(q.inp, low), high)
            /\ (low <= q.inp /\ q.inp <= high) => q.outp = q.inp

\* a symmetric clip of the most negative value of the width
C8_Witness ==
    /\ q.fn = "int_clip" /\ q.w > 1 /\ q.symmetric
    /\ q.inp = SignedMin(q.w)
    /\ q.outp = SignedMin(q.w) + 1

\* C9: for w > 0, int_wrap(v, w) is the unique y in [-2^(w-1), 2^(w-1)-1]
\* congruent to v modulo 2^w; it is v itself for v in that range.
C9_Wrap ==
    (q.fn = "int_wrap" /\ q.w > 0) =>
        /\ InSigned(q.outp, q.w)
        /\ (q.outp - q.inp) % Pow2(q.w) = 0
        /\ \A y \in SignedMin(q.w) .. SignedMax(q.w) :
               (y - q.inp) % Pow2(q.w) = 0 => y = q.outp
        /\ InSigned(q.inp, q.w) => q.outp = q.inp

\* a wrap of a positive value beyond the range that lands on a negative one
C9_Witness ==
    /\ q.fn = "int_wrap" /\ q.w > 1
    /\ q.inp > SignedMax(q.w)
    /\ q.outp < 0

\* the last call was int_round(v, r, "HALF_UP") with r >= 1 and clip off
HalfUpCall ==
    /\ q.fn = "int_round"
    /\ q.r >= 1
    /\ q.direction = "HALF_UP"
    /\ ~q.clip

\* C10: for r >= 1, int_round(v, r, "HALF_UP") with clip off is
\* floor((v + 2^(r-1)) / 2^r): the integer nearest to v / 2^r, exact ties
\* rounded toward +infinity (round(1,1) = 1, round(-1,1) = 0, round(5,1) = 3).
C10_RoundHalfUp ==
    HalfUpCall =>
        /\ q.outp = (q.inp + Pow2(q.r - 1)) \div Pow2(q.r)
        /\ -Pow2(q.r - 1) <= q.inp - q.outp * Pow2(q.r)
        /\ q.inp - q.outp * Pow2(q.r) < Pow2(q.r - 1)
        /\ (q.inp = 1 /\ q.r = 1) => q.outp = 1
        /\ (q.inp = -1 /\ q.r = 1) => q.outp = 0
        /\ (q.inp = 5 /\ q.r = 1) => q.outp = 3

\* a negative exact tie, rounded up
C10_Witness ==
    /\ HalfUpCall
    /\ q.inp < 0
    /\ q.inp % Pow2(q.r) = Pow2(q.r - 1)
    /\ q.outp * Pow2(q.r) > q.inp

Abs(x) == IF x >= 0 THEN x ELSE -x

SupportedDirections == {"HALF_UP", "HALF_AWAY", "HALF_EVEN"}

\* the last call was int_round(v, r, direction) with r >= 1 and clip off
RoundCall(direction) ==
    /\ q.fn = "int_round"
    /\ q.r >= 1
    /\ q.direction = direction
    /\ ~q.clip

\* outp is an integer nearest to v / 2^r
IsNearest(outp, v, r) == 2 * Abs(v - outp * Pow2(r)) <= Pow2(r)

\* v lies exactly half way between two multiples of 2^r
IsTie(v, r) == v % Pow2(r) = Pow2(r - 1)

\* C11: for r >= 1, int_round(v, r, "HALF_AWAY") with clip off is the integer
\* nearest to v / 2^r, exact ties rounded away from zero: the HALF_UP result
\* for v >= 0, floor((v + 2^(r-1) - 1) / 2^r) for v < 0, and so
\* int_round(-v, r, "HALF_AWAY") = -int_round(v, r, "HALF_AWAY").
C11_RoundHalfAway ==
    RoundCall("HALF_AWAY") =>
        /\ IsNearest(q.outp, q.inp, q.r)
        /\ IsTie(q.inp, q.r) => Abs(q.outp * Pow2(q.r)) > Abs(q.inp)
        /\ q.inp >= 0 => q.outp = (q.inp + Pow2(q.r - 1)) \div Pow2(q.r)
        /\ q.inp >= 0 => q.outp = int_round(q.inp, q.r, "HALF_UP", FALSE, 0)
        /\ q.inp < 0 => q.outp = (q.inp + Pow2(q.r - 1) - 1) \div Pow2(q.r)
        /\ int_round(-q.inp, q.r, "HALF_AWAY", FALSE, 0) = -q.outp

\* a negative exact tie, rounded down (away from zero)
C11_Witness ==
    /\ RoundCall("HALF_AWAY")
    /\ q.inp < 0
    /\ IsTie(q.inp, q.r)
    /\ q.outp * Pow2(q.r) < q.inp

\* C12: for r >= 1 and every v, negative included, int_round(v, r,
\* "HALF_EVEN") with clip off is the integer nearest to v / 2^r; on an exact
\* tie (v mod 2^r = 2^(r-1)) it is the even neighbour (round(1,1) = 0,
\* round(3,1) = 2, round(-1,1) = 0, round(-3,1) = -2); otherwise it is the
\* HALF_UP result.
C12_RoundHalfEven ==
    RoundCall("HALF_EVEN") =>
        /\ IsNearest(q.outp, q.inp, q.r)
        /\ IsTie(q.inp, q.r) => q.outp % 2 = 0
        /\ ~IsTie(q.inp, q.r) => q.outp = int_round(q.inp, q.r, "HALF_UP", FALSE, 0)
        /\ ~IsTie(q.inp, q.r) => q.outp = (q.inp + Pow2(q.r - 1)) \div Pow2(q.r)
        /\ (q.inp = 1 /\ q.r = 1) => q.outp = 0
        /\ (q.inp = 3 /\ q.r = 1) => q.outp = 2
        /\ (q.inp = -1 /\ q.r = 1) => q.outp = 0
        /\ (q.inp = -3 /\ q.r = 1) => q.outp = -2

\* a negative exact tie whose HALF_UP result is odd, moved to the even
\* neighbour below
C12_Witness ==
    /\ RoundCall("HALF_EVEN")
    /\ q.inp < 0
    /\ IsTie(q.inp, q.r)
    /\ ((q.inp + Pow2(q.r - 1)) \div Pow2(q.r)) % 2 = 1
    /\ q.outp = (q.inp + Pow2(q.r - 1)) \div Pow2(q.r) - 1

\* the last call was int_round with r >= 1, a supported direction, clip on
\* and outp_w >= 1
ClippedRoundCall ==
    /\ q.fn = "int_round"
    /\ q.r >= 1
    /\ q.direction \in SupportedDirections
    /\ q.clip
    /\ q.outp_w >= 1

\* C13: for r >= 1, a supported direction d and outp_w >= 1,
\* int_round(v, r, d, clip=True, outp_w) =
\* min(int_round(v, r, d, clip=False), 2^(outp_w-1)-1): never above the signed
\* maximum of outp_w bits, and not clamped from below.
C13_RoundClipUpperOnly ==
    ClippedRoundCall =>
        /\ q.outp = Min(int_round(q.inp, q.r, q.direction, FALSE, q.outp_w),
                        SignedMax(q.outp_w))
        /\ q.outp <= SignedMax(q.outp_w)
        /\ round_lsbs(q.inp, q.r, q.direction) < SignedMin(q.outp_w) =>
               q.outp = round_lsbs(q.inp, q.r, q.direction)

\* a rounding result above the signed maximum, clamped to it
C13_Witness ==
    /\ ClippedRoundCall
    /\ round_lsbs(q.inp, q.r, q.direction) > SignedMax(q.outp_w)
    /\ q.outp = SignedMax(q.outp_w)

\* C14: int_round or uint_round called with a direction outside HALF_UP,
\* HALF_AWAY, HALF_EVEN is rejected: it returns no ordinary integer result.
C14_UnsupportedDirectionRejected ==
    (q.fn \in {"int_round", "uint_round"} /\ q.direction \notin SupportedDirections) =>
        q.none

\* C15: negative input where only non-negative is defined is an error and
\* gives no usable result: uint_round(v) with v < 0 returns nothing, and
\* CommonBits(v, bits) with v < 0 yields no container, for bits > 0 and for
\* bits omitted.
C15_NegativeInputRejected ==
    /\ (q.fn = "uint_round" /\ q.inp < 0) => (q.none /\ q.printed)
    /\ (ret.op = "init" /\ ret.data < 0) =>
           ((ret.printed \/ ret.raised) /\ ~ret.new.exists)

\* C16: for r >= 1, int_truncate(v, r) = floor(v / 2^r) and
\* int_truncate(v, r, "SYMMETRIC") is the quotient rounded toward zero
\* (-((-v) >> r) for v < 0), with truncate(-v) = -truncate(v); the two modes
\* agree for v >= 0; for r <= 0 both return v.
C16_Truncate ==
    q.fn = "int_truncate" =>
        /\ q.r <= 0 => q.outp = q.inp
        /\ (q.r >= 1 /\ q.direction = "") =>
               /\ q.outp = q.inp \div Pow2(q.r)
               /\ q.outp * Pow2(q.r) <= q.inp
               /\ q.inp < (q.outp + 1) * Pow2(q.r)
        /\ (q.r >= 1 /\ q.direction = "SYMMETRIC") =>
               /\ q.inp < 0 => q.outp = -((-q.inp) \div Pow2(q.r))
               /\ Abs(q.outp * Pow2(q.r)) <= Abs(q.inp)
               /\ Abs(q.inp) < Abs(q.outp * Pow2(q.r)) + Pow2(q.r)
               /\ q.inp > 0 => q.outp >= 0
               /\ q.inp < 0 => q.outp <= 0
               /\ int_truncate(-q.inp, q.r, "SYMMETRIC") = -q.outp
        /\ q.inp >= 0 =>
               int_truncate(q.inp, q.r, "") = int_truncate(q.inp, q.r, "SYMMETRIC")
        /\ (q.inp = -3 /\ q.r = 1 /\ q.direction = "") => q.outp = -2
        /\ (q.inp = -3 /\ q.r = 1 /\ q.direction = "SYMMETRIC") => q.outp = -1
        /\ (q.inp = 3 /\ q.r = 1) => q.outp = 1

\* a symmetric truncation of a negative value that is no multiple of 2^r
C16_Witness ==
    /\ q.fn = "int_truncate" /\ q.direction = "SYMMETRIC"
    /\ q.r >= 1 /\ q.inp < 0
    /\ q.inp % Pow2(q.r) # 0
    /\ q.outp * Pow2(q.r) > q.inp

(***************************************************************************)
(* Error handling and frame properties of the container (Spec).            *)
(***************************************************************************)

\* the subscript of the last call is outside the container of width w: an
\* index >= w, or a range [high:low] with high >= w or high < low
BadSubscript ==
    \/ ret.bitslice.start >= ret.before.data_bin_len
    \/ ret.bitslice.is_slice /\ ret.bitslice.start < ret.bitslice.stop

\* the call came back as an error: a printed error line or an exception
ErrorOutcome == ret.printed \/ ret.raised

\* C17: a read with bit_index >= w, or of a range with high >= w or
\* high < low, is answered with an error and never with a bit value; an
\* indexed read with 0 <= bit_index < w of a container holding a value
\* returns 0 or 1, namely bit bit_index of data.
C17_ReadChecked ==
    ret.op = "getitem" =>
        /\ BadSubscript => (ErrorOutcome /\ ret.none)
        /\ (~ret.bitslice.is_slice /\ ret.before.has_data
              /\ 0 <= ret.bitslice.start
              /\ ret.bitslice.start < ret.before.data_bin_len) =>
               /\ ~ret.none /\ ~ErrorOutcome
               /\ ret.val \in {0, 1}
               /\ ret.val = Bit(ret.before.data, ret.bitslice.start)

\* an indexed read at exactly bit_index = w, the first index that is out of
\* range, of a container holding a value
C17_Witness ==
    /\ ret.op = "getitem"
    /\ ~ret.bitslice.is_slice
    /\ ret.before.has_data
    /\ ret.bitslice.start = ret.before.data_bin_len
    /\ ret.none /\ ret.printed

\* the value of the last write does not fit: an indexed write of anything
\* but 0 or 1, a range write of a value >= 2^(high-low+1), or of a negative
\* value other than -1
BadWriteValue ==
    \/ ~ret.bitslice.is_slice /\ ret.value \notin {0, 1}
    \/ /\ ret.bitslice.is_slice
       /\ ret.bitslice.start >= ret.bitslice.stop
       /\ ret.value >= Pow2(ret.bitslice.start - ret.bitslice.stop + 1)
    \/ ret.bitslice.is_slice /\ ret.value < -1

\* C18: a write with an invalid index or range, or with a value that does
\* not fit, is rejected with an error and leaves data and width as they were.
C18_WriteRejected ==
    (ret.op = "setitem" /\ (BadSubscript \/ BadWriteValue)) =>
        /\ ErrorOutcome
        /\ ret.after = ret.before
        /\ obj = ret.before

\* an indexed write of -1 at a valid index of a container holding a value
C18_Witness ==
    /\ ret.op = "setitem"
    /\ ~ret.bitslice.is_slice
    /\ ret.before.has_data
    /\ 0 <= ret.bitslice.start
    /\ ret.bitslice.start < ret.before.data_bin_len
    /\ ret.value = -1
    /\ ret.printed

\* C19: the range write c[h:l] = -1 with 0 <= l <= h < w sets every bit of
\* [h:l] to 1 (a following read of [h:l] returns 2^(h-l+1)-1) and leaves all
\* bits outside [h:l] unchanged.
C19_AllOnesSentinel ==
    (ValidRangeWrite /\ ret.value = -1) =>
        LET h  == ret.bitslice.start
            l  == ret.bitslice.stop
            rd == CommonBits_getitem(ret.after, ret.bitslice)
        IN  /\ ~ErrorOutcome
            /\ ~rd.none /\ rd.val = Pow2(h - l + 1) - 1
            /\ \A i \in l .. h : Bit(ret.after.data, i) = 1
            /\ ret.after.data \div Pow2(h + 1) = ret.before.data \div Pow2(h + 1)
            /\ ret.after.data % Pow2(l) = ret.before.data % Pow2(l)
            /\ ret.after.data_bin_len = ret.before.data_bin_len

\* a write of -1 to a range of zero bits strictly inside the container, with
\* a zero bit below it and a set bit above it
C19_Witness ==
    /\ ValidRangeWrite /\ ret.value = -1
    /\ ret.bitslice.stop > 0
    /\ ret.bitslice.start > ret.bitslice.stop
    /\ ret.bitslice.start < ret.before.data_bin_len - 1
    /\ \A i \in ret.bitslice.stop .. ret.bitslice.start : Bit(ret.before.data, i) = 0
    /\ Bit(ret.before.data, 0) = 0
    /\ Bit(ret.before.data, ret.bitslice.start + 1) = 1

\* the minimum number of bits that represent v >= 0 (1 for 0)
MinBits(v) == CHOOSE n \in 1 .. v + 1 : v < Pow2(n) /\ (n = 1 \/ v >= Pow2(n - 1))

\* C20: the width is fixed at construction: the explicit width when one > 0
\* is given, otherwise the minimum number of bits of the initial value (1 for
\* 0); no read, accepted or rejected write, bit reversal, hi()/lo() query or
\* concatenation changes the width of a container it involves.
C20_WidthFixed ==
    /\ (ret.op = "init" /\ ret.new.exists) =>
           ret.new.data_bin_len = IF ret.bits > 0 THEN ret.bits ELSE MinBits(ret.data)
    /\ ret.op \in {"getitem", "setitem", "reversed", "hi", "lo"} =>
           /\ ret.after.data_bin_len = ret.before.data_bin_len
           /\ obj.data_bin_len = ret.before.data_bin_len
    /\ ret.op = "and" =>
           /\ ret.after.data_bin_len = ret.before.data_bin_len
           /\ ret.other_after.data_bin_len = ret.other.data_bin_len

\* an accepted write that changes the data of a container whose explicit
\* width is larger than its value needs, before and after the write
C20_Witness ==
    /\ ret.op = "setitem"
    /\ ~ErrorOutcome
    /\ ret.before.has_data
    /\ ret.after.data # ret.before.data
    /\ ret.before.data_bin_len > MinBits(ret.before.data)
    /\ ret.after.data_bin_len > MinBits(ret.after.data)

(***************************************************************************)
(* Bit reversal (Spec).                                                    *)
(***************************************************************************)

\* C21: for a container of width w that satisfies the invariant, reversed()
\* returns the integer whose bit i is bit (w-1-i) of data for every i in
\* 0..w-1 (width 8, data 1 gives 128); it equals reverse_bits(data, w), and
\* reversing the result over the same width gives data back.
C21_Reversed ==
    /\ (ret.op = "reversed" /\ Fits(ret.before)) =>
           LET w == ret.before.data_bin_len
               d == ret.before.data
           IN  /\ ~ret.none /\ ~ret.raised
               /\ 0 <= ret.val /\ ret.val < Pow2(w)
               /\ \A i \in 0 .. w - 1 : Bit(ret.val, i) = Bit(d, w - 1 - i)
               /\ ret.val = reverse_bits(d, w)
               /\ CommonBits_reversed(CommonBits_init(ret.val, w).self).val = d
               /\ reverse_bits(ret.val, w) = d
    /\ ret.op = "reversed" =>
           CommonBits_reversed(CommonBits_init(1, 8).self).val = 128

\* a reversal of a container with leading zero bits whose value is not its
\* own mirror image
C21_Witness ==
    /\ ret.op = "reversed" /\ Fits(ret.before)
    /\ ret.before.data > 0
    /\ ret.before.data_bin_len > MinBits(ret.before.data)
    /\ ret.val # ret.before.data
    /\ ret.val > ret.before.data

(***************************************************************************)
(* Properties of the symbol views (specification SpecS).                   *)
(***************************************************************************)

\* o is a view of n >= 1 symbols of symbol_w bits that holds a value
SizedView(o) ==
    /\ o.exists /\ o.has_data
    /\ o.data_symbol_len >= 1
    /\ o.data_bin_len = o.symbol_w * o.data_symbol_len

\* bits [hi:lo] of the non-negative integer n
Bits(n, hi, lo) == (n \div Pow2(lo)) % Pow2(hi - lo + 1)

\* C22: on a symbol view with symbol width sw and n >= 1 symbols, reading
\* symbol s (0 <= s < n) returns bits [(s+1)*sw-1 : s*sw] of data, that is
\* (data >> (s*sw)) mod 2^sw; reading the symbol range [hs:ls] with
\* 0 <= ls <= hs < n returns bits [(hs+1)*sw-1 : ls*sw]; writing symbol s
\* changes only those sw bits.
C22_SymbolMapping ==
    LET v  == sret.before
        sw == v.symbol_w
        n  == v.data_symbol_len
        s  == sret.symbolslice.start
        ls == sret.symbolslice.stop
    IN  /\ (sret.op = "getitem" /\ SizedView(v) /\ ~sret.symbolslice.is_slice
               /\ 0 <= s /\ s < n) =>
               /\ ~sret.none /\ ~sret.printed /\ ~sret.raised
               /\ sret.val = Bits(v.data, (s + 1) * sw - 1, s * sw)
               /\ sret.val = ShiftR(v.data, s * sw) % Pow2(sw)
               /\ sret.val = CommonBits_getitem(v, Slice((s + 1) * sw - 1, s * sw, FALSE)).val
        /\ (sret.op = "getitem" /\ SizedView(v) /\ sret.symbolslice.is_slice
               /\ 0 <= ls /\ ls <= s /\ s < n) =>
               /\ ~sret.none /\ ~sret.printed /\ ~sret.raised
               /\ sret.val = Bits(v.data, (s + 1) * sw - 1, ls * sw)
        /\ (sret.op = "setitem" /\ SizedView(v) /\ ~sret.symbolslice.is_slice
               /\ 0 <= s /\ s < n) =>
               /\ sret.after.data \div Pow2((s + 1) * sw) = v.data \div Pow2((s + 1) * sw)
               /\ sret.after.data % Pow2(s * sw) = v.data % Pow2(s * sw)
               /\ [sret.after EXCEPT !.data = v.data] = v
               /\ (0 <= sret.value /\ sret.value < Pow2(sw)) =>
                      /\ ~sret.printed /\ ~sret.raised
                      /\ CommonSymbols_getitem(sret.after, sret.symbolslice).val = sret.value

\* a write that changes the upper symbol of a two-symbol view whose lower
\* symbol is not zero
C22_Witness ==
    /\ sret.op = "setitem" /\ SizedView(sret.before)
    /\ ~sret.symbolslice.is_slice
    /\ sret.symbolslice.start = 1
    /\ sret.before.data_symbol_len = 2
    /\ sret.before.symbol_w > 1
    /\ sret.before.data % Pow2(sret.before.symbol_w) # 0
    /\ sret.value > 0
    /\ sret.after.data # sret.before.data

\* C23: every constructed symbol view, whatever its datasymbols argument
\* (datasymbols <= 0 included), has width = symbol_w * len(view), so that
\* every symbol index s with 0 <= s < len(view) is read without a range
\* error.
C23_WidthIsSymbolsTimesWidth ==
    (sret.op = "init" /\ sret.new.exists) =>
        /\ sret.new.data_bin_len = sret.new.symbol_w * CommonSymbols_len(sret.new)
        /\ \A s \in 0 .. CommonSymbols_len(sret.new) - 1 :
               ~CommonSymbols_getitem(sret.new, Index(s)).printed

(***************************************************************************)
(* Properties of the module-level helpers (specification SpecH).           *)
(***************************************************************************)

\* C24: for nofBits >= 1 and num >= 0, invert_msbit(num, nofBits) is
\* num mod 2^nofBits with only bit nofBits-1 flipped, which is
\* (num + 2^(nofBits-1)) mod 2^nofBits; it lies in [0, 2^nofBits - 1] and
\* applying invert_msbit twice returns num mod 2^nofBits.
C24_InvertMsbit ==
    (hlp.fn = "invert_msbit" /\ hlp.nofBits >= 1 /\ hlp.num >= 0) =>
        LET n == hlp.nofBits
            m == hlp.num % Pow2(n)
        IN  /\ ~hlp.raised
            /\ 0 <= hlp.outp /\ hlp.outp <= Pow2(n) - 1
            /\ \A i \in 0 .. n - 2 : Bit(hlp.outp, i) = Bit(m, i)
            /\ Bit(hlp.outp, n - 1) = 1 - Bit(m, n - 1)
            /\ hlp.outp = (hlp.num + Pow2(n - 1)) % Pow2(n)
            /\ invert_msbit(hlp.outp, n).outp = m

\* a call on a number that needs more than nofBits bits and whose bit
\* nofBits-1 is set, so that the bit is cleared
C24_Witness ==
    /\ hlp.fn = "invert_msbit" /\ hlp.nofBits >= 2
    /\ hlp.num >= Pow2(hlp.nofBits)
    /\ Bit(hlp.num, hlp.nofBits - 1) = 1
    /\ hlp.outp > 0
    /\ hlp.outp < Pow2(hlp.nofBits - 1)

\* element j (from 0) of output k (from 0) of the block deinterleaving of s
RefDeinterleaved(s, nof_out, block_size, k, j) ==
    s[(((j \div block_size) * nof_out + k) * block_size) + (j % block_size) + 1]

\* C26: for a non-empty flat stream whose length is a multiple of
\* nof_out*block_size, deinterleave returns nof_out streams of equal length,
\* output k being the concatenation, in input order, of the blocks of
\* block_size elements numbered k, k+nof_out, k+2*nof_out, ... of the input,
\* for block_size > 1 as for block_size = 1.
C26_Deinterleave ==
    (/\ hlp.fn = "deinterleave"
     /\ Len(hlp.input_stream) > 0
     /\ Len(hlp.input_stream) % (hlp.nof_out * hlp.block_size) = 0) =>
        LET len == Len(hlp.input_stream) \div hlp.nof_out
        IN  /\ ~hlp.none /\ ~hlp.raised
            /\ Len(hlp.result) = hlp.nof_out
            /\ \A k \in 0 .. hlp.nof_out - 1 :
                   /\ Len(hlp.result[k + 1]) = len
                   /\ \A j \in 0 .. len - 1 :
                          hlp.result[k + 1][j + 1] =
                              RefDeinterleaved(hlp.input_stream, hlp.nof_out,
                                               hlp.block_size, k, j)

(***************************************************************************)
(* Degenerate arguments and monotonicity of the quantization functions     *)
(* (specification SpecQ).                                                  *)
(***************************************************************************)

\* C25: for every width w <= 0 and every integer v, int_clip(v, w),
\* symmetric or not, and int_wrap(v, w) return 0, not v.
C25_NonPositiveWidthGivesZero ==
    (q.fn \in {"int_clip", "int_wrap"} /\ q.w <= 0) => q.outp = 0

\* a symmetric clip of a non-zero value to width 0
C25_Witness ==
    /\ q.fn = "int_clip" /\ q.symmetric
    /\ q.w = 0
    /\ q.inp # 0
    /\ q.outp = 0

\* the last call was int_requantize with msb_clip=True and gain_w=0 on a
\* value of the signed input range
ClipRequantizeInRange ==
    /\ q.fn = "int_requantize"
    /\ q.msb_clip /\ q.gain_w = 0
    /\ InSigned(q.inp, q.inp_w)

\* C28: with msb_clip=True and gain_w=0, int_requantize is monotonically
\* non-decreasing over the signed input range: for v1 <= v2 in
\* [-2^(inp_w-1), 2^(inp_w-1)-1] the result for v1 is <= the result for v2,
\* for both values of lsb_round; a rounding carry at the top of the input
\* range saturates at 2^(outp_w-1)-1 and does not wrap to a negative value.
C28_RequantizeMonotonic ==
    ClipRequantizeInRange =>
        /\ \A v2 \in q.inp .. SignedMax(q.inp_w) :
               q.outp <= int_requantize(v2, q.inp_w, q.outp_w, q.lsb_w,
                                        q.lsb_round, TRUE, 0)
        /\ \A v1 \in SignedMin(q.inp_w) .. q.inp :
               int_requantize(v1, q.inp_w, q.outp_w, q.lsb_w,
                              q.lsb_round, TRUE, 0) <= q.outp
        /\ InSigned(q.outp, q.outp_w)
        /\ (q.lsb_round /\ RefRoundAway(q.inp, q.lsb_w) > SignedMax(q.outp_w)) =>
               q.outp = SignedMax(q.outp_w)

\* the largest input of its width, rounded up by a carry out of the output
\* width and saturated
C28_Witness ==
    /\ ClipRequantizeInRange
    /\ q.lsb_round /\ q.lsb_w > 0
    /\ q.inp = SignedMax(q.inp_w)
    /\ q.inp_w = q.outp_w + q.lsb_w
    /\ ShiftR(q.inp, q.lsb_w) = SignedMax(q.outp_w)
    /\ RefRoundAway(q.inp, q.lsb_w) = SignedMax(q.outp_w) + 1
    /\ q.outp = SignedMax(q.outp_w)

\* C29: for r <= 0, int_round(v, r, direction, clip, outp_w) returns v
\* unchanged for every v, every direction token, supported or not, and every
\* clip/outp_w setting: neither the direction check nor the upper clamp is
\* applied, so the result can exceed 2^(outp_w-1)-1 even with clip=True.
C29_RoundNothing ==
    (q.fn = "int_round" /\ q.r <= 0) =>
        /\ q.outp = q.inp
        /\ ~q.none
        /\ ~q.printed

\* a call with r <= 0, an unsupported direction and clip=True that returns a
\* value above the signed maximum of outp_w bits
C29_Witness ==
    /\ q.fn = "int_round" /\ q.r <= 0
    /\ q.direction \notin SupportedDirections
    /\ q.clip
    /\ q.outp > SignedMax(q.outp_w)
    /\ q.outp = q.inp

(***************************************************************************)
(* Associativity of concatenation (Spec).                                  *)
(***************************************************************************)

\* the containers CommonBits(data, bits) that satisfy the invariant
Operands ==
    {o \in {CommonBits_init(data, bits).self : data \in 0 .. MaxData, bits \in BitsArgs} :
        Fits(o)}

\* C30: concatenation is associative on containers that satisfy the
\* invariant: for all a, b, c, (a & b) & c and a & (b & c) have the same
\* width a.width + b.width + c.width and the same data, also when an operand
\* holds the value 0 with its default width 1.  Here a & b is the
\* concatenation just made, and c ranges over the operands on either side.
C30_ConcatAssociative ==
    (ret.op = "and" /\ Fits(ret.before) /\ Fits(ret.other)) =>
        \A c \in Operands :
            LET a   == ret.before
                b   == ret.other
                ab  == ret.new
                l   == CommonBits_and(ab, c)
                r   == CommonBits_and(a, CommonBits_and(b, c).ret)
                l2  == CommonBits_and(CommonBits_and(c, a).ret, b)
                r2  == CommonBits_and(c, ab)
            IN  /\ ~l.raised /\ ~r.raised /\ ~l.printed /\ ~r.printed
                /\ l.ret = r.ret
                /\ l.ret.data_bin_len = a.data_bin_len + b.data_bin_len + c.data_bin_len
                /\ l.ret.data = (a.data * Pow2(b.data_bin_len) + b.data)
                                    * Pow2(c.data_bin_len) + c.data
                /\ ~l2.raised /\ ~r2.raised /\ ~l2.printed /\ ~r2.printed
                /\ l2.ret = r2.ret
                /\ l2.ret.data_bin_len = a.data_bin_len + b.data_bin_len + c.data_bin_len

\* a concatenation of a non-zero container wider than its value with
\* CommonBits(0), the value 0 at its default width 1
C30_Witness ==
    /\ ret.op = "and"
    /\ Fits(ret.before) /\ Fits(ret.other)
    /\ ret.data = 0 /\ ret.bits = 0
    /\ ret.other.data = 0 /\ ret.other.data_bin_len = 1
    /\ ret.before.data > 0
    /\ ret.before.data_bin_len > MinBits(ret.before.data)
    /\ ret.new.data = 2 * ret.before.data

(***************************************************************************)
(* Properties of do_until (specification SpecD).                           *)
(***************************************************************************)

\* do_until has returned because of the timeout
TimedOut == du.pc = "done" /\ du.printed

\* C27: do_until calls method until every element of its flattened return
\* value satisfies op(element, val) and then returns the first element; if
\* s_timeout >= 0 and the elapsed time reaches s_timeout before such a call,
\* it stops and returns 1; with s_timeout < 0 there is no timeout, so it
\* returns only after a satisfying call.
C27_DoUntil ==
    /\ (du.pc = "done" /\ ~TimedOut /\ Len(du.flat_data) > 0) =>
           /\ du.called
           /\ \A i \in 1 .. Len(du.flat_data) : apply_op(du.op, du.flat_data[i], du.val)
           /\ du.ret_kind = "int" /\ du.ret_int = du.flat_data[1]
    /\ TimedOut =>
           /\ du.s_timeout >= 0 /\ du.elapsed >= du.s_timeout
           /\ du.ret_kind = "int" /\ du.ret_int = 1
    /\ (du.pc = "done" /\ du.s_timeout < 0) => (~TimedOut /\ du.list_ok = 1)

====
